---- MODULE Spec2Model ----
(***************************************************************************)
(* Episodic evaluation of a few-shot classifier: MethodEvaluation.apply    *)
(* and its helpers (classification/src/steps/method_evaluation.py).        *)
(*                                                                         *)
(* Representation choices:                                                 *)
(*  - a feature vector is a tuple of Dim small naturals;                   *)
(*  - an episode cell is a reference [cl, ix] to the ix-th vector of the   *)
(*    pool of class cl (0-based ix, as perm_ids); the tensor the code      *)
(*    builds holds features_per_label[cl][ix] in that cell;                *)
(*  - a Python None / unbound local is the empty tuple <<>>;               *)
(*  - accuracies are exact rationals [num, den]; den = 0 is numpy's nan    *)
(*    (the mean of an empty array); the standard deviation is held as its  *)
(*    square, which is rational.  Floating-point rounding is not modelled. *)
(***************************************************************************)
EXTENDS Integers, Sequences, FiniteSets, TLC

\* ------------------------------------------------------------- bounds
MaxRows == 3        \* rows of a (features, labels) pair given to _process_features alone
MaxPerClass == 2    \* instances per class in the pairs given to apply
MaxWay == 2         \* test_n_way
MaxSlice == 2       \* n_shot + n_query
MaxIter == 2        \* n_iter
MaxSwaps == 1       \* n_swaps
MaxEpoch == 1       \* model_state['epoch']

Dim == 2            \* components of a feature vector
Labels == {1, 2}    \* class labels of real instances

None == <<>>

VARIABLES
    cfg,                  \* the attributes set by __init__
    model_state,          \* apply's argument: [epoch]
    features_and_labels,  \* apply's argument: [features, labels]
    pc,                   \* position inside apply
    err,                  \* the exception that ended apply, "" when none
    model,                \* apply's local: the loaded classifier
    features_per_label,   \* apply's local: the FeaturePool
    i,                    \* apply's loop index
    acc_all,              \* apply's local: the AccuracyRecord
    z_all,                \* the episode of the current iteration
    pred,                 \* the predictions of the current iteration
    acc_mean,             \* apply's local
    acc_std,              \* apply's local, held as its square
    log,                  \* the lines of results.txt appended by this run
    ret                   \* apply's return value

vars == <<cfg, model_state, features_and_labels, pc, err, model, features_per_label,
          i, acc_all, z_all, pred, acc_mean, acc_std, log, ret>>

\* ------------------------------------------------------------- helpers
RECURSIVE SumSeq(_)
SumSeq(s) == IF s = <<>> THEN 0 ELSE s[1] + SumSeq(Tail(s))

\* ------------------------------------------------------------- __init__
BaselineMethods == {"baseline", "baseline++"}
MamlMethods == {"maml", "maml_approx"}
\* the method names _load_model has a branch for
KnownMethods ==
    BaselineMethods \cup {"protonet", "matchingnet", "relationnet", "relationnet_softmax"}
        \cup MamlMethods

DefaultTrainNWay == 5
DefaultSaveIter == -1

\* MethodEvaluation(dataset, method=..., test_n_way=..., n_shot=..., n_query=...,
\*                  n_iter=..., n_swaps=...), the other arguments at their defaults
MethodEvaluation(method, n_way, n_shot, n_query, n_iter, n_swaps) ==
    [dataset |-> "CUB", backbone |-> "Conv4", method |-> method,
     train_n_way |-> DefaultTrainNWay, test_n_way |-> n_way,
     n_shot |-> n_shot, n_query |-> n_query, train_aug |-> FALSE,
     split |-> "novel", save_iter |-> DefaultSaveIter, n_iter |-> n_iter,
     adaptation |-> FALSE, n_swaps |-> n_swaps]

\* for i in range(self.n_iter): whether the loop body runs for index k
LoopContinuesOneMore(k) == k <= cfg.n_iter
LoopContinues(k) == k < cfg.n_iter

\* ------------------------------------------------------------- _load_model
UnknownMethodNever(method) == FALSE
\* the else branch: raise ValueError('Unknown method')
UnknownMethod(method) == method \notin KnownMethods

LoadModelReturn ==
    /\ pc = "load_model"
    /\ ~UnknownMethod(cfg.method)
    /\ model' = [method |-> cfg.method, n_way |-> cfg.test_n_way, n_support |-> cfg.n_shot,
                 n_query |-> None]
    /\ pc' = IF cfg.method \in MamlMethods THEN "eval_loop" ELSE "process_features"
    /\ UNCHANGED <<cfg, model_state, features_and_labels, err, features_per_label, i,
                   acc_all, z_all, pred, acc_mean, acc_std, log, ret>>

LoadModelRaise ==
    /\ pc = "load_model"
    /\ UnknownMethod(cfg.method)
    /\ pc' = "failed"
    /\ err' = "ValueError: Unknown method"
    /\ UNCHANGED <<cfg, model_state, features_and_labels, model, features_per_label, i,
                   acc_all, z_all, pred, acc_mean, acc_std, log, ret>>

\* ------------------------------------------------------------- _process_features
\* (not row.all(): true as soon as one component is zero)
NotAll(row) == \E k \in DOMAIN row : row[k] = 0
\* not row.any()
AllZero(row) == \A k \in DOMAIN row : row[k] = 0

\* the while loop of _process_features on the first n rows: the number of rows
\* it keeps, or -1 when features[-1] is evaluated on an empty array (IndexError)
RECURSIVE KeptRows(_, _)
KeptRows(features, n) ==
    IF n = 0 THEN -1
    ELSE IF AllZero(features[n]) THEN KeptRows(features, n - 1)
    ELSE n

\* the appends of the for loop, for one label, over the first n rows
RECURSIVE RowsOf(_, _, _, _)
RowsOf(features, labels, label, n) ==
    IF n = 0 THEN <<>>
    ELSE LET before == RowsOf(features, labels, label, n - 1)
         IN  IF labels[n] = label THEN Append(before, features[n]) ELSE before

\* the dict _process_features returns, given the number of rows kept
ProcessFeatures(fl, kept) ==
    [label \in {fl.labels[k] : k \in 1..kept} |-> RowsOf(fl.features, fl.labels, label, kept)]

\* features, labels = features_and_labels ... return features_per_label
ProcessFeaturesReturn ==
    /\ pc = "process_features"
    /\ KeptRows(features_and_labels.features, Len(features_and_labels.features)) >= 0
    /\ features_per_label' =
           ProcessFeatures(features_and_labels,
                           KeptRows(features_and_labels.features,
                                    Len(features_and_labels.features)))
    /\ pc' = IF LoopContinues(0) THEN "sample" ELSE "aggregate"
    /\ UNCHANGED <<cfg, model_state, features_and_labels, err, model, i, acc_all,
                   z_all, pred, acc_mean, acc_std, log, ret>>

\* features[-1] on an array with no row left
ProcessFeaturesRaise ==
    /\ pc = "process_features"
    /\ KeptRows(features_and_labels.features, Len(features_and_labels.features)) < 0
    /\ pc' = "failed"
    /\ err' = "IndexError: index -1 is out of bounds"
    /\ UNCHANGED <<cfg, model_state, features_and_labels, model, features_per_label, i,
                   acc_all, z_all, pred, acc_mean, acc_std, log, ret>>

\* ------------------------------------------------------------- _set_classification_task
ClassList == DOMAIN features_per_label
SliceLen == cfg.n_shot + cfg.n_query

\* np.random.choice(list(class_list), size=self.test_n_way, replace=False): the
\* possible draws; none when the list is shorter than size (ValueError)
SelectClass ==
    {sel \in [1..cfg.test_n_way -> ClassList] :
        \A a, b \in 1..cfg.test_n_way : a # b => sel[a] # sel[b]}

\* np.random.permutation(n).tolist(): the possible results, a list of 0..n-1
PermIdsWithRepeats(n) == [1..n -> 0..(n - 1)]
PermIds(n) ==
    {p \in [1..n -> 0..(n - 1)] : \A a, b \in 1..n : a # b => p[a] # p[b]}

\* [img_feat[perm_ids[i]] for i in range(n_shot + n_query)] for class cl: the
\* possible slices; the index raises IndexError when the class is too small
Enough(cl) == Len(features_per_label[cl]) >= SliceLen
SliceChoices(cl) ==
    {[k \in 1..SliceLen |-> [cl |-> cl, ix |-> p[k]]] :
        p \in PermIds(Len(features_per_label[cl]))}

\* z_all after the for loop over the first k selected classes
RECURSIVE Stack(_, _)
Stack(sel, k) ==
    IF k = 0 THEN {<<>>}
    ELSE {Append(z, s) : z \in Stack(sel, k - 1), s \in SliceChoices(sel[k])}

\* (the classes' lists shuffled in place, np.random.shuffle(img_feat), instead of
\* indexed through a permutation)
SetClassificationTaskShuffle ==
    /\ pc = "sample"
    /\ \E sel \in SelectClass :
          /\ \A k \in 1..cfg.test_n_way : Enough(sel[k])
          /\ z_all' \in Stack(sel, cfg.test_n_way)
          /\ \E p \in PermIds(Len(features_per_label[sel[1]])) :
                features_per_label' =
                    [features_per_label EXCEPT ![sel[1]] =
                        [k \in DOMAIN @ |-> @[p[k] + 1]]]
    /\ pc' = "perturb"
    /\ UNCHANGED <<cfg, model_state, features_and_labels, err, model,
                   i, acc_all, pred, acc_mean, acc_std, log, ret>>

\* lines 198-207: the classes are drawn and the slices stacked
SetClassificationTaskStack ==
    /\ pc = "sample"
    /\ \E sel \in SelectClass :
          /\ \A k \in 1..cfg.test_n_way : Enough(sel[k])
          /\ z_all' \in Stack(sel, cfg.test_n_way)
    /\ pc' = "perturb"
    /\ UNCHANGED <<cfg, model_state, features_and_labels, err, model, features_per_label,
                   i, acc_all, pred, acc_mean, acc_std, log, ret>>

\* line 200 raises: fewer classes than test_n_way
SetClassificationTaskRaiseClasses ==
    /\ pc = "sample"
    /\ SelectClass = {}
    /\ pc' = "failed"
    /\ err' = "ValueError: Cannot take a larger sample than population"
    /\ UNCHANGED <<cfg, model_state, features_and_labels, model, features_per_label, i,
                   acc_all, z_all, pred, acc_mean, acc_std, log, ret>>

\* (the IndexError caught around the episode, which is then skipped)
SetClassificationTaskSkipInstances ==
    /\ pc = "sample"
    /\ \E sel \in SelectClass : \E k \in 1..cfg.test_n_way : ~Enough(sel[k])
    /\ err' = "IndexError: list index out of range"
    /\ i' = i + 1
    /\ pc' = IF LoopContinues(i + 1) THEN "sample" ELSE "aggregate"
    /\ UNCHANGED <<cfg, model_state, features_and_labels, model, features_per_label,
                   acc_all, z_all, pred, acc_mean, acc_std, log, ret>>

\* line 205 raises: a drawn class has fewer than n_shot + n_query vectors
SetClassificationTaskRaiseInstances ==
    /\ pc = "sample"
    /\ \E sel \in SelectClass : \E k \in 1..cfg.test_n_way : ~Enough(sel[k])
    /\ pc' = "failed"
    /\ err' = "IndexError: list index out of range"
    /\ UNCHANGED <<cfg, model_state, features_and_labels, model, features_per_label, i,
                   acc_all, z_all, pred, acc_mean, acc_std, log, ret>>

\* utils.utils.random_swap_numpy, one swap: the feature vectors of two support
\* cells of two different classes are exchanged
SwapOnce(z, n_shot) ==
    {[z EXCEPT ![c1][p1] = z[c2][p2], ![c2][p2] = z[c1][p1]] :
        <<c1, p1, c2, p2>> \in
            {q \in (DOMAIN z) \X (1..n_shot) \X (DOMAIN z) \X (1..n_shot) : q[1] # q[3]}}

\* utils.utils.random_swap_numpy(array, n_swaps, n_shot): the possible results
RECURSIVE random_swap_numpy(_, _, _)
random_swap_numpy(z, n_swaps, n_shot) ==
    IF n_swaps = 0 THEN {z}
    ELSE UNION {SwapOnce(w, n_shot) : w \in random_swap_numpy(z, n_swaps - 1, n_shot)}

\* the third argument of the call of random_swap_numpy
SwapRegionWholeSlice == cfg.n_shot + cfg.n_query
SwapRegion == cfg.n_shot

\* lines 208-211: the swaps, and the return
SetClassificationTaskSwap ==
    /\ pc = "perturb"
    /\ z_all' \in random_swap_numpy(z_all, cfg.n_swaps, SwapRegion)
    /\ pc' = "classify"
    /\ UNCHANGED <<cfg, model_state, features_and_labels, err, model, features_per_label,
                   i, acc_all, pred, acc_mean, acc_std, log, ret>>

\* ------------------------------------------------------------- _feature_evaluation
NQueries == cfg.test_n_way * cfg.n_query

\* y = np.repeat(range(self.test_n_way), self.n_query), as a 1-based sequence
YTrue == [j \in 1..NQueries |-> (j - 1) \div cfg.n_query]

\* scores.data.cpu().numpy().argmax(axis=1) of the external classifier: one class
\* index per query.  The classifiers tried: one that answers a fixed class, and
\* one that answers the true class shifted by a fixed amount
Predictions ==
    {[j \in 1..NQueries |-> c] : c \in 0..(cfg.test_n_way - 1)}
        \cup {[j \in 1..NQueries |-> (YTrue[j] + d) % cfg.test_n_way] :
                 d \in 0..(cfg.test_n_way - 1)}

\* lines 177-182: the classifier is run on the episode
FeatureEvaluationForward ==
    /\ pc = "classify"
    /\ pred' \in Predictions
    /\ model' = [model EXCEPT !.n_query = cfg.n_query]
    /\ pc' = "score"
    /\ UNCHANGED <<cfg, model_state, features_and_labels, err, features_per_label, i,
                   acc_all, z_all, acc_mean, acc_std, log, ret>>

\* np.mean(pred == y) * 100
AccuracyFraction(p, y) ==
    [num |-> Cardinality({j \in DOMAIN p : p[j] = y[j]}), den |-> Len(p)]
Accuracy(p, y) ==
    [num |-> 100 * Cardinality({j \in DOMAIN p : p[j] = y[j]}), den |-> Len(p)]

\* lines 183-185 and 133: the episode is scored and its accuracy appended
FeatureEvaluationScore ==
    /\ pc = "score"
    /\ acc_all' = Append(acc_all, Accuracy(pred, YTrue))
    /\ i' = i + 1
    /\ z_all' = None
    /\ pred' = None
    /\ pc' = IF LoopContinues(i + 1) THEN "sample" ELSE "aggregate"
    /\ UNCHANGED <<cfg, model_state, features_and_labels, err, model, features_per_label,
                   acc_mean, acc_std, log, ret>>

\* ------------------------------------------------------------- apply
\* float(np.mean(acc_all)): the accuracies of a run share their denominator
Mean(accs) ==
    [num |-> SumSeq([k \in DOMAIN accs |-> accs[k].num]),
     den |-> Len(accs) * (IF accs = <<>> THEN 0 ELSE accs[1].den)]

\* float(np.std(acc_all)), squared: the mean of the squares minus the squared mean
StdSquared(accs) ==
    LET n == Len(accs)
        s == SumSeq([k \in DOMAIN accs |-> accs[k].num])
        q == SumSeq([k \in DOMAIN accs |-> accs[k].num * accs[k].num])
        d == IF accs = <<>> THEN 0 ELSE accs[1].den
    IN  [num |-> n * q - s * s, den |-> n * n * d * d]

\* _confidence_interval(std) = 1.96 * std / sqrt(n_iter), squared, with
\* 1.96 = 49 / 25
ConfidenceIntervalSquared(std2) ==
    [num |-> 49 * 49 * std2.num, den |-> 25 * 25 * cfg.n_iter * std2.den]

\* set_and_print_random_seed(...); acc_all = []
ApplyStart ==
    /\ pc = "start"
    /\ acc_all' = <<>>
    /\ pc' = "load_model"
    /\ UNCHANGED <<cfg, model_state, features_and_labels, err, model, features_per_label,
                   i, z_all, pred, acc_mean, acc_std, log, ret>>

\* lines 107-126: the image path of maml; eval_loop is external and returns
\* some mean and some standard deviation
EvalLoop ==
    /\ pc = "eval_loop"
    /\ \E m \in {0, 100} : acc_mean' = [num |-> m, den |-> 1]
    /\ acc_std' = [num |-> 0, den |-> 1]
    /\ pc' = "persist"
    /\ UNCHANGED <<cfg, model_state, features_and_labels, err, model, features_per_label,
                   i, acc_all, z_all, pred, log, ret>>

\* lines 137-140
Aggregate ==
    /\ pc = "aggregate"
    /\ acc_mean' = Mean(acc_all)
    /\ acc_std' = StdSquared(acc_all)
    /\ pc' = "persist"
    /\ UNCHANGED <<cfg, model_state, features_and_labels, err, model, features_per_label,
                   i, acc_all, z_all, pred, log, ret>>

\* split_str and aug_str
SplitStr ==
    IF cfg.save_iter # DefaultSaveIter THEN <<cfg.split, cfg.save_iter>> ELSE <<cfg.split>>
AugStr ==
    (IF cfg.train_aug THEN <<"-aug">> ELSE <<>>)
        \o (IF cfg.adaptation THEN <<"-adapted">> ELSE <<>>)

\* exp_setting: the values the format string is filled with, by name
ExpSetting ==
    IF cfg.method \in BaselineMethods
    THEN [dataset |-> cfg.dataset, split_str |-> SplitStr, backbone |-> cfg.backbone,
          method |-> cfg.method, aug_str |-> AugStr, n_shot |-> cfg.n_shot,
          test_n_way |-> cfg.test_n_way, n_swaps |-> cfg.n_swaps]
    ELSE [dataset |-> cfg.dataset, split_str |-> SplitStr, backbone |-> cfg.backbone,
          method |-> cfg.method, aug_str |-> AugStr, n_shot |-> cfg.n_shot,
          train_n_way |-> cfg.train_n_way, test_n_way |-> cfg.test_n_way]

\* acc_str: '%d Test Acc = %4.2f%% +- %4.2f%%'
AccStr ==
    [n_iter |-> cfg.n_iter, acc_mean |-> acc_mean,
     confidence_interval |-> ConfidenceIntervalSquared(acc_std)]

\* lines 141-159: the record is appended to results.txt and the mean returned
Persist ==
    /\ pc = "persist"
    /\ log' = Append(log, [setting |-> ExpSetting, epoch |-> model_state.epoch,
                           acc |-> AccStr])
    /\ ret' = acc_mean
    /\ pc' = "done"
    /\ UNCHANGED <<cfg, model_state, features_and_labels, err, model, features_per_label,
                   i, acc_all, z_all, pred, acc_mean, acc_std>>

Next ==
    \/ ApplyStart
    \/ LoadModelReturn
    \/ LoadModelRaise
    \/ EvalLoop
    \/ ProcessFeaturesReturn
    \/ ProcessFeaturesRaise
    \/ SetClassificationTaskStack
    \/ SetClassificationTaskRaiseClasses
    \/ SetClassificationTaskRaiseInstances
    \/ SetClassificationTaskSwap
    \/ FeatureEvaluationForward
    \/ FeatureEvaluationScore
    \/ Aggregate
    \/ Persist

\* ------------------------------------------------------------- initial states
\* the task parameters: n_way >= 1, n_shot >= 1, n_query >= 0, n_iter >= 1,
\* n_swaps >= 0, and a swap needs two classes
Configs(methods, iters) ==
    {MethodEvaluation(t[1], t[2], t[3], t[4], t[5], t[6]) :
        t \in {u \in methods \X (1..MaxWay) \X (1..MaxSlice) \X (0..MaxSlice)
                      \X iters \X (0..MaxSwaps) :
                 /\ u[3] + u[4] <= MaxSlice
                 /\ u[6] > 0 => u[2] >= 2}}

\* the k-th vector of class label: distinct across the pool, never all-zero
Vector(label, k) == [d \in 1..Dim |-> IF d = 1 THEN label ELSE k]
ZeroVector == [d \in 1..Dim |-> 0]

\* an extracted (features, labels) pair: sizes[label] vectors for each label,
\* class after class, then pad rows of zeros (with label 0)
RECURSIVE ClassRows(_, _)
ClassRows(label, n) ==
    IF n = 0 THEN <<>> ELSE Append(ClassRows(label, n - 1), Vector(label, n))
RECURSIVE Extracted(_, _, _)
Extracted(sizes, todo, pad) ==
    IF todo = {}
    THEN [features |-> [k \in 1..pad |-> ZeroVector], labels |-> [k \in 1..pad |-> 0]]
    ELSE LET label == CHOOSE x \in todo : \A y \in todo : x <= y
             rest == Extracted(sizes, todo \ {label}, pad)
         IN  [features |-> ClassRows(label, sizes[label]) \o rest.features,
              labels |-> [k \in 1..sizes[label] |-> label] \o rest.labels]

ApplyInputs ==
    {Extracted(sizes, Labels, pad) : sizes \in [Labels -> 0..MaxPerClass], pad \in {0, 1}}

\* the aligned pairs of n rows
RowValues == [1..Dim -> 0..1]
AlignedPair(fl, n) ==
    \E f \in [1..n -> RowValues], l \in [1..n -> Labels] : fl = [features |-> f, labels |-> l]

\* apply's locals before its first line, the run at position at
Locals(at) ==
    /\ pc = at
    /\ err = ""
    /\ model = None
    /\ features_per_label = None
    /\ i = 0
    /\ acc_all = <<>>
    /\ z_all = None
    /\ pred = None
    /\ acc_mean = None
    /\ acc_std = None
    /\ log = <<>>
    /\ ret = None

\* apply, from its first line, on an extracted pair: a feature method, a maml
\* method and a name that is no method
Init ==
    /\ cfg \in Configs({"protonet", "maml", "bogus"}, 1..MaxIter)
    /\ model_state \in [epoch : {MaxEpoch}]
    /\ features_and_labels \in ApplyInputs
    /\ Locals("start")
Spec == Init /\ [][Next]_vars

\* apply on runs of one episode, with every method and every epoch
InitMethods ==
    /\ cfg \in Configs(KnownMethods \cup {"bogus"}, {1})
    /\ model_state \in [epoch : 0..MaxEpoch]
    /\ features_and_labels \in ApplyInputs
    /\ Locals("start")
SpecMethods == InitMethods /\ [][Next]_vars

\* _process_features alone, on every aligned pair of at most MaxRows rows
InitPF ==
    /\ cfg = MethodEvaluation("protonet", 1, 1, 0, 1, 0)
    /\ model_state \in [epoch : {MaxEpoch}]
    /\ \E n \in 0..MaxRows : AlignedPair(features_and_labels, n)
    /\ Locals("process_features")
NextPF == ProcessFeaturesReturn \/ ProcessFeaturesRaise
SpecPF == InitPF /\ [][NextPF]_vars

\* ------------------------------------------------------------- properties
FeatureMode == cfg.method \in KnownMethods \ MamlMethods
SamplingErrors ==
    {"ValueError: Cannot take a larger sample than population", "IndexError: list index out of range"}

\* C1: in feature mode, an episode that fails for want of classes or of instances
\* ends the run there (the run is in its failed position, the episode is neither
\* retried nor skipped), nothing has been appended to the result log and nothing
\* is returned, whatever the number of episodes that succeeded before; and the
\* log is appended to only once all n_iter episodes are scored and aggregated.
C1_EpisodeFailureAborts ==
    /\ err \in SamplingErrors =>
          /\ pc = "failed"
          /\ log = <<>>
          /\ ret = None
          /\ acc_mean = None
          /\ Len(acc_all) = i
          /\ i < cfg.n_iter
    /\ (FeatureMode /\ log # <<>>) =>
          /\ err = ""
          /\ pc = "done"
          /\ Len(acc_all) = cfg.n_iter
          /\ acc_mean # None

\* an episode fails after an earlier episode of the same run succeeded
C1_Witness ==
    /\ pc = "failed"
    /\ err = "IndexError: list index out of range"
    /\ Len(acc_all) >= 1
    /\ log = <<>>

\* C3: a method outside the enumerated set is rejected by _load_model before the
\* feature pool is built and before any episode is sampled; the run appends
\* nothing to the log and returns nothing.
C3_UnknownMethodRejectedFirst ==
    cfg.method \notin KnownMethods =>
        /\ pc \in {"start", "load_model", "failed"}
        /\ pc = "failed" => err = "ValueError: Unknown method"
        /\ model = None
        /\ features_per_label = None
        /\ z_all = None
        /\ acc_all = <<>>
        /\ acc_mean = None
        /\ log = <<>>
        /\ ret = None

\* the run of an unknown method has been rejected
C3_Witness ==
    /\ cfg.method \notin KnownMethods
    /\ pc = "failed"
    /\ err = "ValueError: Unknown method"
    /\ features_per_label = None

\* the steps a run may take from each position, and what each does to the
\* AccuracyRecord and to the log
C9_Order ==
    /\ pc = "start" => pc' = "load_model"
    /\ pc = "load_model" => pc' \in {"process_features", "failed"}
    /\ pc = "process_features" => pc' \in {"sample", "failed"} /\ acc_all' = <<>>
    /\ pc = "sample" => pc' \in {"perturb", "failed"} /\ acc_all' = acc_all
    /\ pc = "perturb" => pc' = "classify" /\ acc_all' = acc_all
    /\ pc = "classify" => pc' = "score" /\ acc_all' = acc_all
    /\ pc = "score" =>
          /\ Len(acc_all') = Len(acc_all) + 1
          /\ \/ pc' = "sample" /\ Len(acc_all') < cfg.n_iter
             \/ pc' = "aggregate" /\ Len(acc_all') = cfg.n_iter
    /\ pc = "aggregate" => pc' = "persist" /\ acc_all' = acc_all
    /\ pc = "persist" => pc' = "done" /\ Len(log') = Len(log) + 1
    /\ pc # "persist" => log' = log
    /\ pc \notin {"done", "failed"}
\* what each position says of the AccuracyRecord and of the log
C9_Position ==
    /\ pc \in {"sample", "perturb", "classify", "score"} =>
          Len(acc_all) = i /\ i < cfg.n_iter
    /\ pc \in {"aggregate", "persist", "done"} => Len(acc_all) = cfg.n_iter /\ i = cfg.n_iter
    /\ Len(log) = IF pc = "done" THEN 1 ELSE 0
\* C9: a feature-mode run goes start, load_model, process_features, then n_iter
\* times sample, perturb, classify, score, then aggregate, persist, done, never
\* back; the AccuracyRecord gains one entry per scored episode and holds n_iter
\* entries when aggregate starts; the log is written once, by the persist step.
C9_StateMachine ==
    /\ [][FeatureMode => C9_Order]_vars
    /\ [](FeatureMode => C9_Position)

\* a run of several episodes is done
C9_Witness ==
    /\ FeatureMode
    /\ pc = "done"
    /\ cfg.n_iter >= 2
    /\ Len(acc_all) = cfg.n_iter
    /\ Len(log) = 1

\* a step after _process_features has returned leaves the pool as it is
C10_PoolStep ==
    pc \notin {"start", "load_model", "process_features"} =>
        features_per_label' = features_per_label
\* C10: once _process_features has returned, no step changes the feature pool:
\* every class keeps the same vectors in the same order, with any n_swaps; and
\* an episode starts with no episode left from the one before.
C10_PoolImmutable ==
    /\ [][C10_PoolStep]_vars
    /\ [](pc = "sample" => z_all = None /\ pred = None)

\* a second episode has been sampled and its labels swapped
C10_Witness ==
    /\ pc = "classify"
    /\ i >= 1
    /\ cfg.n_swaps >= 1
    /\ features_per_label # None

\* the episode has n_way slices of n_shot + n_query cells, each an existing
\* vector of the pool, and no vector of the pool twice
WellShaped(z) ==
    /\ DOMAIN z = 1..cfg.test_n_way
    /\ \A c \in DOMAIN z :
          /\ DOMAIN z[c] = 1..(cfg.n_shot + cfg.n_query)
          /\ \A k \in DOMAIN z[c] :
                /\ z[c][k].cl \in DOMAIN features_per_label
                /\ z[c][k].ix \in 0..(Len(features_per_label[z[c][k].cl]) - 1)
    /\ \A c, d \in DOMAIN z : \A k \in DOMAIN z[c], m \in DOMAIN z[d] :
          z[c][k] = z[d][m] => (c = d /\ k = m)
\* the cells at positions from..to of a slice are of one class, a different class
\* for each slice
OwnClass(z, from, to) ==
    /\ \A c \in DOMAIN z : \A k, m \in from..to : z[c][k].cl = z[c][m].cl
    /\ \A c, d \in DOMAIN z : \A k \in from..to : c # d => z[c][k].cl # z[d][k].cl

\* C2 as stated: the episode _set_classification_task returns has n_way distinct
\* classes and n_shot + n_query instances per class, each of its class's own
\* pool, none twice.
C2_AsStated ==
    pc = "classify" =>
        WellShaped(z_all) /\ OwnClass(z_all, 1, cfg.n_shot + cfg.n_query)

\* C2, amended: the episode as sampled, and the episode returned when
\* n_swaps = 0, has n_way distinct classes and n_shot + n_query instances per
\* class, each of its class's own pool, none twice; with n_swaps >= 1 the
\* returned episode keeps its shape, holds no pool instance twice, and its query
\* instances are each of their class's own pool.
C2_SampledEpisode ==
    /\ pc = "perturb" =>
          WellShaped(z_all) /\ OwnClass(z_all, 1, cfg.n_shot + cfg.n_query)
    /\ (pc = "classify" /\ cfg.n_swaps = 0) =>
          WellShaped(z_all) /\ OwnClass(z_all, 1, cfg.n_shot + cfg.n_query)
    /\ pc = "classify" =>
          WellShaped(z_all) /\ OwnClass(z_all, cfg.n_shot + 1, cfg.n_shot + cfg.n_query)

\* a returned episode of two classes whose first support cell is of the other
\* class's pool
C2_Witness ==
    /\ pc = "classify"
    /\ cfg.test_n_way = 2
    /\ cfg.n_query >= 1
    /\ z_all[1][1].cl = z_all[2][cfg.n_shot + 1].cl
    /\ z_all[1][1].cl # z_all[1][cfg.n_shot + 1].cl

\* the step of the swaps leaves the shape and the query cells as they are
C6_QueryStep ==
    pc = "perturb" =>
        /\ DOMAIN z_all' = DOMAIN z_all
        /\ \A c \in DOMAIN z_all :
              /\ DOMAIN z_all'[c] = DOMAIN z_all[c]
              /\ \A k \in DOMAIN z_all[c] : k > cfg.n_shot => z_all'[c][k] = z_all[c][k]
\* C6: the swaps leave every cell at a position beyond n_shot as the sampler
\* made it, whatever n_swaps; only support cells change.
C6_QueryRegionUnchanged == [][C6_QueryStep]_vars

\* an episode with queries whose support cells were exchanged, in a run's
\* second episode
C6_Witness ==
    /\ pc = "classify"
    /\ cfg.n_swaps >= 1
    /\ cfg.n_query >= 1
    /\ i = 1
    /\ \E c \in DOMAIN z_all : z_all[c][1].cl # z_all[c][cfg.n_shot + 1].cl

\* the class index of the j-th query, in class order
QueryClass(j) ==
    CHOOSE c \in 0..(cfg.test_n_way - 1) : c * cfg.n_query < j /\ j <= (c + 1) * cfg.n_query
Matches(p) == Cardinality({j \in DOMAIN p : p[j] = QueryClass(j)})
\* the rational q is 100 / n_way
IsChance(q) == q.den # 0 /\ q.num * cfg.test_n_way = 100 * q.den
LastAcc == acc_all'[Len(acc_all')]

\* scoring predictions that are all 0 appends 100 / n_way
C7_StubStep ==
    (pc = "score" /\ \A j \in DOMAIN pred : pred[j] = 0) => IsChance(LastAcc)
\* C7 as stated: a classifier that answers class 0 for every query scores
\* 100 / n_way on every episode.
C7_AsStated == [][C7_StubStep]_vars

\* scoring, with at least one query per class
C7_ScoreStep ==
    (pc = "score" /\ cfg.n_query >= 1) =>
        /\ Len(pred) = cfg.test_n_way * cfg.n_query
        /\ LastAcc.den # 0
        /\ LastAcc.num * Len(pred) = 100 * Matches(pred) * LastAcc.den
        /\ (\A j \in DOMAIN pred : pred[j] = 0) => IsChance(LastAcc)
\* the mean and the deviation of episodes that all scored 100 / n_way
C7_Run ==
    (FeatureMode /\ pc \in {"persist", "done"}
        /\ \A k \in DOMAIN acc_all : IsChance(acc_all[k])) =>
        /\ IsChance(acc_mean)
        /\ acc_std.num = 0 /\ acc_std.den # 0
        /\ pc = "done" =>
              /\ ret = acc_mean
              /\ log[1].acc.acc_mean = acc_mean
              /\ log[1].acc.confidence_interval.num = 0
              /\ log[1].acc.confidence_interval.den # 0
\* C7, amended: with n_query >= 1, the accuracy of an episode is the percentage
\* of its n_way * n_query predictions that equal the class index of their query;
\* a classifier that answers class 0 for every query scores 100 / n_way; and a
\* run whose episodes all score 100 / n_way returns the mean 100 / n_way, with
\* a confidence half-width of 0.
C7_Accuracy == [][C7_ScoreStep]_vars /\ []C7_Run

\* the second episode of a run of two classes is about to be scored, all its
\* predictions 0, the first having scored 50
C7_Witness ==
    /\ pc = "score"
    /\ cfg.test_n_way = 2
    /\ cfg.n_query >= 1
    /\ \A j \in DOMAIN pred : pred[j] = 0
    /\ Len(acc_all) = 1
    /\ acc_all[1].num = 50 * acc_all[1].den

\* C8 as stated: the record a successful run appends holds the dataset, the
\* backbone and the method, the shot and way configuration, n_swaps, the epoch
\* of the checkpoint and the accuracy summary, for every method.
C8_RecordHoldsSwaps ==
    \A k \in DOMAIN log :
        /\ log[k].setting.dataset = cfg.dataset
        /\ log[k].setting.backbone = cfg.backbone
        /\ log[k].setting.method = cfg.method
        /\ log[k].setting.n_shot = cfg.n_shot
        /\ log[k].setting.test_n_way = cfg.test_n_way
        /\ "n_swaps" \in DOMAIN log[k].setting
        /\ log[k].setting.n_swaps = cfg.n_swaps
        /\ log[k].epoch = model_state.epoch
        /\ log[k].acc.acc_mean = acc_mean

\* the all-zero vector, and the last row of features that is not all-zero
IsZero(row) == row = [d \in DOMAIN row |-> 0]
LastNonZero(features) ==
    CHOOSE n \in DOMAIN features :
        ~IsZero(features[n]) /\ \A m \in DOMAIN features : m > n => IsZero(features[m])
\* the number of rows among the first n whose label is that of row n
Rank(labels, n) == Cardinality({m \in 1..n : labels[m] = labels[n]})

\* C4: given a pair with a row that is not all-zero, _process_features returns,
\* and the pool holds exactly the rows up to the last one that is not all-zero,
\* each under its own label, in their order: the all-zero rows after it are
\* gone, with their labels, and the all-zero rows before it are kept.
C4_TrimAndGroup ==
    LET features == features_and_labels.features
        labels == features_and_labels.labels
    IN  (pc # "process_features" /\ \E n \in DOMAIN features : ~IsZero(features[n])) =>
            LET last == LastNonZero(features)
            IN  /\ pc # "failed"
                /\ DOMAIN features_per_label = {labels[n] : n \in 1..last}
                /\ \A label \in DOMAIN features_per_label :
                      Len(features_per_label[label]) =
                          Cardinality({n \in 1..last : labels[n] = label})
                /\ \A n \in 1..last :
                      features_per_label[labels[n]][Rank(labels, n)] = features[n]

\* three rows, the last all-zero and trimmed, the first all-zero and kept
C4_Witness ==
    /\ pc = "sample"
    /\ Len(features_and_labels.features) = 3
    /\ IsZero(features_and_labels.features[3])
    /\ ~IsZero(features_and_labels.features[2])
    /\ IsZero(features_and_labels.features[1])
    /\ features_and_labels.labels[1] = features_and_labels.labels[2]
    /\ Len(features_per_label[features_and_labels.labels[1]]) = 2

\* C5 as stated: when every row is all-zero, or there is no row, _process_features
\* returns a pool of no class.
C5_EmptyPoolReturned ==
    (pc # "process_features"
        /\ \A n \in DOMAIN features_and_labels.features :
              IsZero(features_and_labels.features[n])) =>
        /\ pc # "failed"
        /\ DOMAIN features_per_label = {}

====
